---- MODULE Spec2Model ----
(***************************************************************************)
(* A model of src/app.py, the Ayurvedic risk predictor: the dosha          *)
(* normaliser, the CSV loader, the suggestion matcher and the risk scorer. *)
(*                                                                         *)
(* Text is modelled as a sequence of one-character strings, so that        *)
(* trimming, lower-casing, searching, splitting and sorting are computed   *)
(* character by character as the Python code computes them.  pandas' NA /  *)
(* NaN and Python's None are the sentinels NA and None below.              *)
(***************************************************************************)
EXTENDS Integers, Sequences, FiniteSets, TLC

\* ------------------------------------------------------------------ text

\* pandas.NA / NaN: a value that is a cell but no text.
NA == <<"<NA>">>

\* Python's None.
None == <<"<None>">>

\* pd.isna(x)
isna(x) == x = NA

\* The characters str.strip() and the regex class \s remove.
Whitespace == {" ", "\t", "\n"}

UpperCase == <<"A","B","C","D","E","F","G","H","I","J","K","L","M",
               "N","O","P","Q","R","S","T","U","V","W","X","Y","Z">>

LowerCase == <<"a","b","c","d","e","f","g","h","i","j","k","l","m",
               "n","o","p","q","r","s","t","u","v","w","x","y","z">>

Digits == <<"0","1","2","3","4","5","6","7","8","9">>

\* The characters of the model in code point order: Python compares and
\* sorts str values by code point.
CodePoints == <<"\t", "\n", " ", "+", ",", "-", "/">> \o Digits \o <<";">>
              \o UpperCase \o <<"_">> \o LowerCase \o <<"|">>

\* The elements of a sequence.
Range(q) == {q[i] : i \in 1..Len(q)}

UpperSet == Range(UpperCase)

LowerSet == Range(LowerCase)

OrdOf ==
    [c \in Range(CodePoints) |->
        CHOOSE i \in 1..Len(CodePoints) : CodePoints[i] = c]

LowerOf ==
    [c \in UpperSet |-> LowerCase[CHOOSE i \in 1..26 : UpperCase[i] = c]]

ord(c) == OrdOf[c]

\* str.lower() on one character.
lower_char(c) == IF c \in UpperSet THEN LowerOf[c] ELSE c

\* str.lower()
lower(s) == [i \in 1..Len(s) |-> lower_char(s[i])]

\* str.strip(): leading and trailing whitespace removed.
RECURSIVE lstrip(_)
lstrip(s) ==
    IF s # <<>> /\ Head(s) \in Whitespace THEN lstrip(Tail(s)) ELSE s

RECURSIVE rstrip(_)
rstrip(s) ==
    IF s # <<>> /\ s[Len(s)] \in Whitespace
    THEN rstrip(SubSeq(s, 1, Len(s) - 1)) ELSE s

strip(s) == rstrip(lstrip(s))

\* str.startswith(p)
startswith(s, p) == Len(p) <= Len(s) /\ SubSeq(s, 1, Len(p)) = p

\* p occurs in s at position i.
occurs_at(s, p, i) ==
    i + Len(p) - 1 <= Len(s) /\ SubSeq(s, i, i + Len(p) - 1) = p

\* Python's `p in s` for two str values.
contains(s, p) == \E i \in 1..(Len(s) + 1) : occurs_at(s, p, i)

\* Python's < on str: lexicographic by code point.
RECURSIVE str_less(_, _)
str_less(a, b) ==
    IF b = <<>> THEN FALSE
    ELSE IF a = <<>> THEN TRUE
    ELSE IF Head(a) = Head(b) THEN str_less(Tail(a), Tail(b))
    ELSE ord(Head(a)) < ord(Head(b))

\* ------------------------------------------------- dosha normalisation

vata == <<"v","a","t","a">>
pitta == <<"p","i","t","t","a">>
kapha == <<"k","a","p","h","a">>
tridosha == <<"t","r","i","d","o","s","h","a">>
trisosha == <<"t","r","i","s","o","s","h","a">>
tri == <<"t","r","i">>
dosha == <<"d","o","s","h","a">>

\* Raw labels: "Pitta, Vata", "vata+kapha" and "Vata/Pitta/Kapha".
PittaCommaVata == <<"P","i","t","t","a",","," ","V","a","t","a">>

VataPlusKapha == vata \o <<"+">> \o kapha

VataSlashPittaSlashKapha ==
    <<"V","a","t","a","/","P","i","t","t","a","/","K","a","p","h","a">>

ORDER == <<vata, pitta, kapha>>

ORDER_SET == Range(ORDER)

\* The characters the regex class \w matches.
WordChars == UpperSet \cup LowerSet \cup Range(Digits) \cup {"_"}

word_char(c) == c \in WordChars

\* The regex \b at the gap before position i of s (1 <= i <= Len(s) + 1).
word_boundary(s, i) ==
    LET before == i > 1 /\ word_char(s[i - 1])
        after == i <= Len(s) /\ word_char(s[i])
    IN before # after

\* re.search(r"\btri\s*dosha\b", s)
search_tri_dosha(s) ==
    \E i \in 1..Len(s) : \E n \in 0..Len(s) :
        /\ occurs_at(s, tri, i)
        /\ word_boundary(s, i)
        /\ \A j \in (i + 3)..(i + 2 + n) : j <= Len(s) /\ s[j] \in Whitespace
        /\ occurs_at(s, dosha, i + 3 + n)
        /\ word_boundary(s, i + 8 + n)

\* The bug of leaving the misspelling out of the test.
is_tridosha_variant_no_misspelling(s) ==
    contains(s, tridosha) \/ search_tri_dosha(s)

\* The test of line 59.
is_tridosha_variant(s) ==
    contains(s, tridosha) \/ contains(s, trisosha) \/ search_tri_dosha(s)

Separators == {";", ",", "+", "/"}

\* re.sub(r"[;,+/]+", "|", s): each run of separators becomes one bar.
RECURSIVE unify_separators(_)
unify_separators(s) ==
    IF s = <<>> THEN <<>>
    ELSE IF Head(s) \in Separators
    THEN IF Len(s) > 1 /\ s[2] \in Separators
         THEN unify_separators(Tail(s))
         ELSE <<"|">> \o unify_separators(Tail(s))
    ELSE <<Head(s)>> \o unify_separators(Tail(s))

\* s.replace(" ", "")
remove_spaces(s) == SelectSeq(s, LAMBDA c : c # " ")

\* re.sub(r"[^a-z|]", "", s)
KeptChars == LowerSet \cup {"|"}

strip_junk(s) == SelectSeq(s, LAMBDA c : c \in KeptChars)

\* s.split("|"): the pieces between the bars, the empty ones included.
RECURSIVE split_bar(_)
split_bar(s) ==
    IF \A i \in 1..Len(s) : s[i] # "|" THEN <<s>>
    ELSE LET i == CHOOSE k \in 1..Len(s) :
                     s[k] = "|" /\ \A j \in 1..(k - 1) : s[j] # "|"
         IN <<SubSeq(s, 1, i - 1)>> \o split_bar(SubSeq(s, i + 1, Len(s)))

\* Lines 63 to 68: the parts that are base tokens, in the order written.
parse_parts(s) ==
    LET unified == strip_junk(remove_spaces(unify_separators(s)))
        nonempty == SelectSeq(split_bar(unified), LAMBDA p : p # <<>>)
    IN SelectSeq(nonempty, LAMBDA p : p \in ORDER_SET)

\* The bug of keeping the tokens in the order written.
RECURSIVE present_in_written_order(_)
present_in_written_order(parts) ==
    IF parts = <<>> THEN <<>>
    ELSE LET others == SelectSeq(Tail(parts), LAMBDA p : p # Head(parts))
         IN <<Head(parts)>> \o present_in_written_order(others)

\* Line 72: the base tokens among the parts, in the order of ORDER.
present_of(parts) == SelectSeq(ORDER, LAMBDA d : d \in Range(parts))

\* The bug of joining with a space.
RECURSIVE join_space(_)
join_space(ps) ==
    IF ps = <<>> THEN <<>>
    ELSE IF Len(ps) = 1 THEN ps[1]
    ELSE ps[1] \o <<" ">> \o join_space(Tail(ps))

\* "|".join(present)
RECURSIVE join_bar(_)
join_bar(ps) ==
    IF ps = <<>> THEN <<>>
    ELSE IF Len(ps) = 1 THEN ps[1]
    ELSE ps[1] \o <<"|">> \o join_bar(Tail(ps))

normalize_dosha(x) ==
    IF isna(x) THEN NA
    ELSE LET s == lower(strip(x))
         IN IF is_tridosha_variant(s) THEN tridosha
            ELSE LET parts == parse_parts(s)
                     present == present_of(parts)
                 IN IF parts = <<>> THEN NA
                    ELSE IF Len(present) >= 3 THEN tridosha
                    ELSE join_bar(present)

\* ------------------------------------------------------------ weights

\* The keys of disease_group_weight.
G_Urinary_tract_infections ==
    <<"U","r","i","n","a","r","y"," ","t","r","a","c","t"," ","i","n","f",
      "e","c","t","i","o","n","s">>

G_Muscular_disorders ==
    <<"M","u","s","c","u","l","a","r"," ","d","i","s","o","r","d","e","r",
      "s">>

G_Cardiomyopathies ==
    <<"C","a","r","d","i","o","m","y","o","p","a","t","h","i","e","s">>

G_Cardiovascular_diseases ==
    <<"C","a","r","d","i","o","v","a","s","c","u","l","a","r"," ","d","i",
      "s","e","a","s","e","s">>

G_Ear_diseases == <<"E","a","r"," ","d","i","s","e","a","s","e","s">>

G_Eye_diseases == <<"E","y","e"," ","d","i","s","e","a","s","e","s">>

G_Hematological_diseases ==
    <<"H","e","m","a","t","o","l","o","g","i","c","a","l"," ","d","i","s",
      "e","a","s","e","s">>

G_Liver_disease == <<"L","i","v","e","r"," ","d","i","s","e","a","s","e">>

G_Mental_health_Psychiatric_disorders ==
    <<"M","e","n","t","a","l"," ","h","e","a","l","t","h"," ","/"," ","P",
      "s","y","c","h","i","a","t","r","i","c"," ","d","i","s","o","r","d",
      "e","r","s">>

G_Nutritional_Deficiency_Diseases ==
    <<"N","u","t","r","i","t","i","o","n","a","l"," ","D","e","f","i","c",
      "i","e","n","c","y"," ","D","i","s","e","a","s","e","s">>

G_Reproductive_system_diseases ==
    <<"R","e","p","r","o","d","u","c","t","i","v","e"," ","s","y","s","t",
      "e","m"," ","d","i","s","e","a","s","e","s">>

G_Tropical_diseases ==
    <<"T","r","o","p","i","c","a","l"," ","d","i","s","e","a","s","e","s">>

G_Endocrine_and_Metabolic_Diseases ==
    <<"E","n","d","o","c","r","i","n","e"," ","a","n","d"," ","M","e","t",
      "a","b","o","l","i","c"," ","D","i","s","e","a","s","e","s">>

G_Cancer_and_neoplasms ==
    <<"C","a","n","c","e","r"," ","a","n","d"," ","n","e","o","p","l","a",
      "s","m","s">>

G_Zoonotic_diseases ==
    <<"Z","o","o","n","o","t","i","c"," ","d","i","s","e","a","s","e","s">>

\* disease_group_weight, in tenths: the pairs of a key and ten times its weight.
disease_group_weight ==
    {<<G_Urinary_tract_infections, 40>>,
     <<G_Muscular_disorders, 50>>,
     <<G_Cardiomyopathies, 70>>,
     <<G_Cardiovascular_diseases, 90>>,
     <<G_Ear_diseases, 30>>,
     <<G_Eye_diseases, 40>>,
     <<G_Hematological_diseases, 60>>,
     <<G_Liver_disease, 70>>,
     <<G_Mental_health_Psychiatric_disorders, 60>>,
     <<G_Nutritional_Deficiency_Diseases, 40>>,
     <<G_Reproductive_system_diseases, 50>>,
     <<G_Tropical_diseases, 60>>,
     <<G_Endocrine_and_Metabolic_Diseases, 70>>,
     <<G_Cancer_and_neoplasms, 90>>,
     <<G_Zoonotic_diseases, 60>>}

\* dosha_weight, in tenths.
dosha_weight ==
    {<<vata, 75>>, <<pitta, 80>>, <<kapha, 65>>,
     <<vata \o <<"|">> \o pitta, 85>>, <<vata \o <<"|">> \o kapha, 70>>,
     <<pitta \o <<"|">> \o kapha, 80>>, <<tridosha, 95>>}

\* W_GROUP and W_DOSHA, in tenths.
W_GROUP == 6

W_DOSHA == 4

\* d.get(key, 0.0) on a dict given as its pairs; the weight in tenths.
dict_get(d, key) ==
    IF \E p \in d : p[1] = key THEN (CHOOSE p \in d : p[1] = key)[2] ELSE 0

\* ------------------------------------------------------------- the CSV

\* The column names load_data looks for.
H_Symptom == <<"S","y","m","p","t","o","m">>

H_Symptoms == <<"S","y","m","p","t","o","m","s">>

H_CommonGroup ==
    <<"C","o","m","m","o","n"," ","d","i","s","e","a","s","e"," ","g","r",
      "o","u","p">>

H_DiseaseGroup == <<"D","i","s","e","a","s","e"," ","G","r","o","u","p">>

H_DoshaClean == <<"D","o","s","h","a","_","C","l","e","a","n">>

H_DoshaTypes == <<"D","o","s","h","a"," ","T","y","p","e","s">>

H_DoshaTypesLower == <<"D","o","s","h","a"," ","t","y","p","e","s">>

\* The column names a row of the file holds a cell for.
ColumnNames ==
    {H_Symptom, H_Symptoms, H_CommonGroup, H_DiseaseGroup, H_DoshaClean,
     H_DoshaTypes, H_DoshaTypesLower}

\* csv_header: the header names as written in the file.  csv_rows: the data
\* rows; csv_rows[i][c] is the cell of row i under the header whose trimmed
\* name is c.  The rest is the module state of app.py and what the last
\* calls were given and returned.
\* nd_in, nd_out, nd_prev: the argument and the results of normalize_dosha
\* called on its own.
VARIABLES nd_in, nd_out, nd_prev

VARIABLES csv_header, csv_rows, phase, error, df, SYMPTOM_COL, SYMPTOMS,
          SYMPTOM_LOOKUP, query, limit, suggestions, raised, picked,
          risk_text, res, probe

\* Line 83: df.rename(columns=lambda c: str(c).strip())
columns_of(header) == {strip(h) : h \in header}

\* The bug of accepting only the first spelling.
symptom_col_only_singular(columns) ==
    IF H_Symptom \in columns THEN H_Symptom ELSE None

\* Line 86.
symptom_col_of(columns) ==
    IF H_Symptom \in columns THEN H_Symptom
    ELSE IF H_Symptoms \in columns THEN H_Symptoms
    ELSE None

\* Line 99.
dosha_src_of(columns) ==
    IF H_DoshaTypes \in columns THEN H_DoshaTypes
    ELSE IF H_DoshaTypesLower \in columns THEN H_DoshaTypesLower
    ELSE None

\* The KeyError load_data raises for these columns; "" when it raises none.
load_error(columns) ==
    IF symptom_col_of(columns) = None
    THEN "CSV must include 'Symptom' or 'Symptoms' column."
    ELSE IF H_CommonGroup \notin columns
    THEN "CSV must include 'Common disease group' column."
    ELSE IF H_DiseaseGroup \notin columns
    THEN "CSV must include 'Disease Group' column."
    ELSE IF H_DoshaClean \notin columns /\ dosha_src_of(columns) = None
    THEN "CSV must include 'Dosha_Clean' or a raw dosha column ('Dosha Types' or 'Dosha types')."
    ELSE ""

\* Lines 89 to 105: the table load_data keeps, row by row.
load_df(columns, rows) ==
    LET symptom_col == symptom_col_of(columns)
        dosha_col == IF H_DoshaClean \in columns THEN H_DoshaClean
                     ELSE dosha_src_of(columns)
    IN [i \in 1..Len(rows) |->
          [symptom |-> rows[i][symptom_col],
           common_group |-> rows[i][H_CommonGroup],
           disease_group |-> rows[i][H_DiseaseGroup],
           Dosha_Clean |-> normalize_dosha(rows[i][dosha_col])]]

\* sorted(S) for a set of str.
RECURSIVE sorted(_)
sorted(S) ==
    IF S = {} THEN <<>>
    ELSE LET m == CHOOSE x \in S : \A y \in S \ {x} : str_less(x, y)
         IN <<m>> \o sorted(S \ {m})

\* Line 108.
symptoms_of(table) == sorted({table[i].symptom : i \in 1..Len(table)})

\* The bug of keying the map by the lower-cased text without trimming it.
lookup_key_untrimmed(s) == lower(s)

\* The key of line 109: s.strip().lower()
lookup_key(s) == lower(strip(s))

\* The bug of keeping the first symptom of a key.
RECURSIVE lookup_first_wins(_)
lookup_first_wins(symptoms) ==
    IF symptoms = <<>> THEN <<>>
    ELSE LET n == Len(symptoms)
             before == lookup_first_wins(SubSeq(symptoms, 1, n - 1))
             key == lookup_key(symptoms[n])
         IN [k \in DOMAIN before \cup {key} |->
               IF k \in DOMAIN before THEN before[k] ELSE symptoms[n]]

\* Line 109: the dict comprehension; a later symptom of the list replaces
\* an earlier one with the same key.
RECURSIVE lookup_of(_)
lookup_of(symptoms) ==
    IF symptoms = <<>> THEN <<>>
    ELSE LET n == Len(symptoms)
             before == lookup_of(SubSeq(symptoms, 1, n - 1))
             key == lookup_key(symptoms[n])
         IN [k \in DOMAIN before \cup {key} |->
               IF k = key THEN symptoms[n] ELSE before[k]]

\* ------------------------------------------------------------ helpers

\* The bug of looking the text up as typed.
resolve_exact_as_typed(text) ==
    LET t == IF text = None THEN <<>> ELSE text
    IN IF t \in DOMAIN SYMPTOM_LOOKUP THEN SYMPTOM_LOOKUP[t] ELSE None

\* Lines 117 and 118; dict.get gives None for a missing key.
resolve_exact(text) ==
    LET t == IF text = None \/ text = <<>> THEN <<>> ELSE text
        key == lower(strip(t))
    IN IF key \in DOMAIN SYMPTOM_LOOKUP THEN SYMPTOM_LOOKUP[key] ELSE None

\* The bug of making a score of exactly 7 Medium.
risk_level_seven_is_medium(score) ==
    IF score < 400 THEN "Low"
    ELSE IF score <= 700 THEN "Medium"
    ELSE "High"

\* Lines 120 to 126, on a score in hundredths.
risk_level_from_score(score) ==
    IF score < 400 THEN "Low"
    ELSE IF score < 700 THEN "Medium"
    ELSE "High"

\* round(x, 2) on a value in thousandths; the result is in hundredths.
\* Ties go to the even neighbour.
round2(thousandths) ==
    LET q == thousandths \div 10
        r == thousandths % 10
    IN IF r > 5 \/ (r = 5 /\ q % 2 = 1) THEN q + 1 ELSE q

\* str(cell)
str_of(cell) == IF isna(cell) THEN <<"n","a","n">> ELSE cell

NotFoundMessage ==
    "Symptom not found. Pick from suggestions or type an exact value from the dataset."

\* Lines 128 to 156.  Weights are in tenths, the score in hundredths.
compute_risk(symptom_text) ==
    LET canon == resolve_exact(symptom_text)
    IN IF canon = None \/ canon = <<>>
       THEN [found |-> FALSE, message |-> NotFoundMessage]
       ELSE LET first == CHOOSE i \in 1..Len(df) :
                            /\ df[i].symptom = canon
                            /\ \A j \in 1..(i - 1) : df[j].symptom # canon
                row == df[first]
                common_group == strip(str_of(row.common_group))
                disease_group == strip(str_of(row.disease_group))
                dosha_clean == IF isna(row.Dosha_Clean) THEN <<>>
                               ELSE row.Dosha_Clean
                g_w == dict_get(disease_group_weight, common_group)
                d_w == dict_get(dosha_weight, dosha_clean)
                score == round2(10 * (W_GROUP * g_w + W_DOSHA * d_w))
            IN [found |-> TRUE,
                symptom |-> canon,
                common_group |-> common_group,
                disease_group |-> disease_group,
                dosha_clean |-> IF dosha_clean = <<>> THEN <<"-">>
                                ELSE dosha_clean,
                group_weight |-> g_w,
                dosha_weight |-> d_w,
                formula |-> <<W_GROUP, g_w, W_DOSHA, d_w>>,
                risk_score_0_10 |-> score,
                risk_level |-> risk_level_from_score(score)]

\* ------------------------------------------------- suggestion matcher

\* difflib.SequenceMatcher.find_longest_match over the whole of a and b,
\* with no junk: the longest block a[i..i+k-1] = b[j..j+k-1]; of the
\* longest, the one that starts earliest in a, and of those the one that
\* starts earliest in b.  k = 0 when no character matches.
find_longest_match(a, b) ==
    LET blocks == {<<i, j, k>> \in (1..Len(a)) \X (1..Len(b)) \X (1..Len(b)) :
                      /\ i + k - 1 <= Len(a)
                      /\ j + k - 1 <= Len(b)
                      /\ SubSeq(a, i, i + k - 1) = SubSeq(b, j, j + k - 1)}
    IN IF blocks = {} THEN <<1, 1, 0>>
       ELSE CHOOSE m \in blocks : \A o \in blocks \ {m} :
               \/ m[3] > o[3]
               \/ m[3] = o[3] /\ m[1] < o[1]
               \/ m[3] = o[3] /\ m[1] = o[1] /\ m[2] < o[2]

\* The sum of the sizes of SequenceMatcher.get_matching_blocks(): the
\* longest match, then the same to its left and to its right.
RECURSIVE matches(_, _)
matches(a, b) ==
    IF a = <<>> \/ b = <<>> THEN 0
    ELSE LET m == find_longest_match(a, b)
         IN IF m[3] = 0 THEN 0
            ELSE m[3]
                 + matches(SubSeq(a, 1, m[1] - 1), SubSeq(b, 1, m[2] - 1))
                 + matches(SubSeq(a, m[1] + m[3], Len(a)),
                           SubSeq(b, m[2] + m[3], Len(b)))

\* The cutoff of line 164, in tenths.
CUTOFF == 6

\* SequenceMatcher.ratio() >= cutoff, ratio being 2.0 * matches / length.
close_enough(x, word) ==
    10 * 2 * matches(x, word) >= CUTOFF * (Len(x) + Len(word))

\* (ratio, x) of one candidate is greater than that of another: tuples
\* compare by ratio and then by text.
scored_greater(x, y, word) ==
    LET mx == matches(x, word) * (Len(y) + Len(word))
        my == matches(y, word) * (Len(x) + Len(word))
    IN mx > my \/ (mx = my /\ str_less(y, x))

\* heapq.nlargest(n, result): the n greatest, greatest first.
RECURSIVE nlargest(_, _, _)
nlargest(n, S, word) ==
    IF n = 0 \/ S = {} THEN <<>>
    ELSE LET m == CHOOSE x \in S : \A y \in S \ {x} : scored_greater(x, y, word)
         IN <<m>> \o nlargest(n - 1, S \ {m}, word)

\* difflib.get_close_matches(word, possibilities, n, cutoff=0.6) for n > 0.
get_close_matches(word, possibilities, n) ==
    nlargest(n, {x \in Range(possibilities) : close_enough(x, word)}, word)

\* The bug of a loop that never stops early.
RECURSIVE collect_all(_, _, _)
collect_all(rest, out, k) ==
    IF rest = <<>> THEN out
    ELSE collect_all(Tail(rest),
                     IF Head(rest) \in Range(out) THEN out
                     ELSE Append(out, Head(rest)), k)

\* Lines 166 to 171: the loop over prefix + substr + fuzzy.
RECURSIVE collect(_, _, _)
collect(rest, out, k) ==
    IF rest = <<>> THEN out
    ELSE LET next == IF Head(rest) \in Range(out) THEN out
                     ELSE Append(out, Head(rest))
         IN IF Len(next) >= k THEN next ELSE collect(Tail(rest), next, k)

\* Line 159: (query or "").strip().lower()
query_text(q) == lower(strip(IF q = None THEN <<>> ELSE q))

\* difflib raises ValueError("n must be > 0") at line 164.
get_suggestions_raises(q, k) == query_text(q) # <<>> /\ ~(k * 2 > 0)

\* The bug of putting the substring matches first.
combined_substr_first(prefix, substr, fuzzy) == substr \o prefix \o fuzzy

\* Line 167: prefix + substr + fuzzy
combined(prefix, substr, fuzzy) == prefix \o substr \o fuzzy

\* Lines 158 to 172, when nothing is raised.
get_suggestions(q, k) ==
    LET text == query_text(q)
    IN IF text = <<>> THEN <<>>
       ELSE LET prefix == SelectSeq(SYMPTOMS,
                              LAMBDA s : startswith(lower(s), text))
                substr == SelectSeq(SYMPTOMS,
                              LAMBDA s : contains(lower(s), text)
                                         /\ s \notin Range(prefix))
                close == get_close_matches(text, SYMPTOMS, k * 2)
                fuzzy == SelectSeq(close,
                              LAMBDA s : s \notin Range(prefix)
                                         /\ s \notin Range(substr))
            IN collect(combined(prefix, substr, fuzzy), <<>>, k)

\* ------------------------------------------------------ state machine

\* A variable of a call that has not been made.
Unset == <<"<unset>">>

\* res before compute_risk has been called.
NoResult == [called |-> FALSE]

\* What get_suggestions raised: nothing, or difflib's ValueError.
NothingRaised == <<>>

ValueError == <<"ValueError">>

mainvars ==
    <<csv_header, csv_rows, phase, error, df, SYMPTOM_COL, SYMPTOMS,
      SYMPTOM_LOOKUP, query, limit, suggestions, raised, picked, risk_text,
      res, probe>>

\* The process before load_data has run: nothing loaded, nothing called,
\* nothing selected in the search box.
Fresh ==
    /\ phase = "start"
    /\ error = Unset
    /\ df = Unset
    /\ SYMPTOM_COL = Unset
    /\ SYMPTOMS = Unset
    /\ SYMPTOM_LOOKUP = Unset
    /\ query = Unset
    /\ limit = Unset
    /\ suggestions = Unset
    /\ raised = Unset
    /\ picked = None
    /\ risk_text = Unset
    /\ res = NoResult
    /\ probe = Unset

\* Line 112: load_data() at import.  A KeyError ends the script.
LoadData ==
    /\ phase = "start"
    /\ LET columns == columns_of(csv_header)
       IN IF load_error(columns) # ""
          THEN /\ phase' = "failed"
               /\ error' = <<"KeyError", load_error(columns)>>
               /\ UNCHANGED <<df, SYMPTOM_COL, SYMPTOMS, SYMPTOM_LOOKUP>>
          ELSE /\ phase' = "loaded"
               /\ df' = load_df(columns, csv_rows)
               /\ SYMPTOM_COL' = symptom_col_of(columns)
               /\ SYMPTOMS' = symptoms_of(df')
               /\ SYMPTOM_LOOKUP' = lookup_of(SYMPTOMS')
               /\ UNCHANGED error
    /\ UNCHANGED <<nd_in, nd_out, nd_prev>>
    /\ UNCHANGED <<csv_header, csv_rows, query, limit, suggestions, raised,
                   picked, risk_text, res, probe>>

\* No call made and nothing selected since the script last started.
Idle ==
    /\ phase = "loaded"
    /\ suggestions = Unset
    /\ raised = Unset
    /\ picked = None
    /\ res = NoResult

\* One call get_suggestions(q, k).
GetSuggestions(q, k) ==
    /\ Idle
    /\ query' = q
    /\ limit' = k
    /\ IF get_suggestions_raises(q, k)
       THEN raised' = ValueError /\ UNCHANGED suggestions
       ELSE raised' = NothingRaised /\ suggestions' = get_suggestions(q, k)
    /\ UNCHANGED <<nd_in, nd_out, nd_prev>>
    /\ UNCHANGED <<csv_header, csv_rows, phase, error, df, SYMPTOM_COL,
                   SYMPTOMS, SYMPTOM_LOOKUP, picked, risk_text, res, probe>>

\* Lines 182 to 186: the search box hands back the option the user picks
\* among the suggestions shown.
Pick ==
    /\ phase = "loaded"
    /\ suggestions # Unset
    /\ picked = None
    /\ res = NoResult
    /\ \E s \in Range(suggestions) : picked' = s
    /\ UNCHANGED <<nd_in, nd_out, nd_prev>>
    /\ UNCHANGED <<csv_header, csv_rows, phase, error, df, SYMPTOM_COL,
                   SYMPTOMS, SYMPTOM_LOOKUP, query, limit, suggestions,
                   raised, risk_text, res, probe>>

\* Lines 188 and 189: the button calls compute_risk(picked).
Predict ==
    /\ phase = "loaded"
    /\ res = NoResult
    /\ risk_text' = picked
    /\ res' = compute_risk(picked)
    /\ UNCHANGED <<nd_in, nd_out, nd_prev>>
    /\ UNCHANGED <<csv_header, csv_rows, phase, error, df, SYMPTOM_COL,
                   SYMPTOMS, SYMPTOM_LOOKUP, query, limit, suggestions,
                   raised, picked, probe>>

\* One call compute_risk(text) with a text of the caller's.
ComputeRisk(text) ==
    /\ Idle
    /\ risk_text' = text
    /\ res' = compute_risk(text)
    /\ UNCHANGED <<nd_in, nd_out, nd_prev>>
    /\ UNCHANGED <<csv_header, csv_rows, phase, error, df, SYMPTOM_COL,
                   SYMPTOMS, SYMPTOM_LOOKUP, query, limit, suggestions,
                   raised, picked, probe>>

\* The script runs again for a new session; load_data is cached (line 80),
\* so the table and the lookup stay.
Rerun ==
    /\ phase = "loaded"
    /\ ~Idle
    /\ query' = Unset
    /\ limit' = Unset
    /\ suggestions' = Unset
    /\ raised' = Unset
    /\ picked' = None
    /\ risk_text' = Unset
    /\ res' = NoResult
    /\ UNCHANGED <<nd_in, nd_out, nd_prev>>
    /\ UNCHANGED <<csv_header, csv_rows, phase, error, df, SYMPTOM_COL,
                   SYMPTOMS, SYMPTOM_LOOKUP, probe>>

\* One call risk_level_from_score(score), the score in hundredths.
RiskLevel(score) ==
    /\ probe = Unset
    /\ probe' = <<score, risk_level_from_score(score)>>
    /\ UNCHANGED <<nd_in, nd_out, nd_prev>>
    /\ UNCHANGED <<csv_header, csv_rows, phase, error, df, SYMPTOM_COL,
                   SYMPTOMS, SYMPTOM_LOOKUP, query, limit, suggestions,
                   raised, picked, risk_text, res>>

\* ------------------------------------------------------------- inputs

\* The most data rows of a file, and the greatest small limit tried.
MaxRows == 2

MaxLimit == 2

\* The limit search_symptoms passes (line 180).
K_SEARCH == 12

StandardHeader == {H_Symptom, H_CommonGroup, H_DiseaseGroup, H_DoshaTypes}

\* A data row under StandardHeader.
Row(symptom, common, disease, dosha_raw) ==
    [c \in ColumnNames |->
        IF c \in {H_Symptom, H_Symptoms} THEN symptom
        ELSE IF c = H_CommonGroup THEN common
        ELSE IF c = H_DiseaseGroup THEN disease
        ELSE dosha_raw]

T_Cold == <<"C","o","l","d">>

T_cold == <<"c","o","l","d">>

T_space_cold == <<" ","c","o","l","d">>

T_Head_cold == <<"H","e","a","d"," ","c","o","l","d">>

T_Cold_head_cold ==
    <<"C","o","l","d",","," ","h","e","a","d"," ","c","o","l","d">>

T_Cough == <<"C","o","u","g","h">>

T_Fever == <<"F","e","v","e","r">>

\* Rows whose symptoms share a key, a prefix or a substring.
RowPool ==
    {Row(T_Cold, G_Ear_diseases, <<"E","N","T">>, <<"V","a","t","a">>),
     Row(T_cold, G_Liver_disease, <<"L","i","v","e","r">>, PittaCommaVata),
     Row(T_space_cold, G_Eye_diseases, <<"E","y","e">>, kapha),
     Row(T_Head_cold, G_Tropical_diseases, <<"F","e","v","e","r","s">>,
         tridosha),
     Row(T_Cold_head_cold, G_Cancer_and_neoplasms, <<"O","t","h","e","r">>,
         VataPlusKapha),
     Row(T_Cough, G_Muscular_disorders, NA, NA)}

\* Every table of at most MaxRows rows of the pool, in every order.
Tables == UNION {[1..n -> RowPool] : n \in 0..MaxRows}

\* What the user types into the search box.
Queries ==
    {None, <<>>, <<" "," ">>, T_cold, T_space_cold, <<"C","o","l","d"," ">>,
     <<"c","o">>, <<"c","l","d">>, <<"d">>}

Limits == {0 - 1, 0} \cup (1..MaxLimit) \cup {K_SEARCH}

\* Texts handed to compute_risk directly.
RiskTexts == {<<>>, <<" ","C","O","L","D"," ">>, T_Head_cold, T_Fever, T_Cough}

Init ==
    /\ Fresh
    /\ csv_header = StandardHeader
    /\ csv_rows \in Tables
    /\ nd_in = Unset /\ nd_out = Unset /\ nd_prev = Unset

Next ==
    \/ LoadData
    \/ \E q \in Queries : \E k \in Limits : GetSuggestions(q, k)
    \/ Pick
    \/ Predict
    \/ \E text \in RiskTexts : ComputeRisk(text)
    \/ Rerun

vars ==
    <<nd_in, nd_out, nd_prev, csv_header, csv_rows, phase, error, df,
      SYMPTOM_COL, SYMPTOMS, SYMPTOM_LOOKUP, query, limit, suggestions,
      raised, picked, risk_text, res, probe>>

Spec == Init /\ [][Next]_vars

\* ------------------------------------------------- the scorer's inputs

\* The cells of the "Common disease group" column: every key of the weight
\* table, a padded key, a group the table does not hold, and an empty cell.
GroupCells ==
    {p[1] : p \in disease_group_weight}
    \cup {<<" ">> \o G_Liver_disease \o <<" ">>,
          <<"S","k","i","n"," ","d","i","s","e","a","s","e","s">>, NA}

\* The cells of the "Dosha Types" column.
DoshaCells ==
    {<<"V","a","t","a">>, pitta, kapha, PittaCommaVata, VataPlusKapha,
     <<"k","a","p","h","a","/","p","i","t","t","a">>, tridosha,
     VataSlashPittaSlashKapha, <<"u","n","k","n","o","w","n">>, NA}

\* Scores in hundredths, around the two thresholds.
ProbeScores == {0, 399, 400, 401, 699, 700, 701, 1000}

InitRisk ==
    /\ Fresh
    /\ csv_header = StandardHeader
    /\ \E g \in GroupCells : \E d \in DoshaCells :
          csv_rows = <<Row(T_Cold, g, <<"E","N","T">>, d)>>
    /\ nd_in = Unset /\ nd_out = Unset /\ nd_prev = Unset

NextRisk ==
    \/ LoadData
    \/ \E text \in RiskTexts : ComputeRisk(text)
    \/ \E score \in ProbeScores : RiskLevel(score)

SpecRisk == InitRisk /\ [][NextRisk]_vars

\* ------------------------------------------------- the loader's inputs

\* Header names as a file may write them: padded, in the second spelling,
\* or in a spelling load_data does not accept.
HeaderPool ==
    {<<" ">> \o H_Symptom, H_Symptoms, H_CommonGroup \o <<" ">>,
     H_DiseaseGroup, H_DoshaClean, H_DoshaTypes,
     <<" ">> \o H_DoshaTypesLower,
     <<"d","o","s","h","a"," ","t","y","p","e","s">>,
     <<"D","i","s","e","a","s","e"," ","g","r","o","u","p">>}

\* Two data rows with a different cell under every column.
LoadRows ==
    <<[c \in ColumnNames |->
         IF c = H_Symptom THEN T_Cold
         ELSE IF c = H_Symptoms THEN T_Cough
         ELSE IF c = H_CommonGroup THEN G_Ear_diseases
         ELSE IF c = H_DiseaseGroup THEN <<"E","N","T">>
         ELSE IF c = H_DoshaClean
              THEN <<"K","a","p","h","a"," ",";"," ","V","a","t","a">>
         ELSE IF c = H_DoshaTypes THEN PittaCommaVata
         ELSE tridosha],
      [c \in ColumnNames |->
         IF c = H_Symptom THEN T_Head_cold
         ELSE IF c = H_Symptoms THEN T_Fever
         ELSE IF c = H_CommonGroup THEN G_Liver_disease
         ELSE IF c = H_DiseaseGroup THEN <<"L","i","v","e","r">>
         ELSE IF c = H_DoshaClean THEN NA
         ELSE IF c = H_DoshaTypes THEN <<"u","n","k","n","o","w","n">>
         ELSE kapha]>>

InitLoad ==
    /\ Fresh
    /\ csv_header \in SUBSET HeaderPool
    /\ csv_rows = LoadRows
    /\ nd_in = Unset /\ nd_out = Unset /\ nd_prev = Unset

NextLoad == LoadData

SpecLoad == InitLoad /\ [][NextLoad]_vars

\* ------------------------------------------ the normaliser on its own

normvars == <<nd_in, nd_out, nd_prev>>

\* The most items of a separated list, and the most chunks of a free text.
MaxItems == 3

MaxChunks == 3

\* All concatenations of at most n of the chunks.
RECURSIVE Concats(_, _)
Concats(chunks, n) ==
    IF n = 0 THEN {<<>>}
    ELSE LET shorter == Concats(chunks, n - 1)
         IN shorter \cup {c \o s : c \in chunks, s \in shorter}

\* What may stand before a token of a list: a separator, a separator and a
\* space, a run of separators, or only a space.
ListGaps == {<<",">>, <<";", " ">>, <<"+", "/">>, <<" ">>}

ListTokens == {vata, <<"P","i","t","t","a">>, kapha}

ListItems == {g \o t : g \in ListGaps, t \in ListTokens}

\* Free text around the tridosha spellings.
TextChunks ==
    {tridosha, <<"T","R","I","S","O","S","H","A">>, tri, dosha,
     <<"T","r","i"," ","\t","d","o","s","h","a">>,
     <<"x">>, <<"-">>, <<" ">>, <<",">>, vata}

\* The raw labels normalize_dosha is applied to.
\* The raw labels normalize_dosha is applied to.
NormInputs ==
    {NA, PittaCommaVata, VataPlusKapha, VataSlashPittaSlashKapha}
    \cup Concats(ListItems, MaxItems) \cup Concats(TextChunks, MaxChunks)

InitNorm ==
    /\ nd_in \in NormInputs
    /\ nd_out = Unset
    /\ nd_prev = Unset
    /\ Fresh
    /\ csv_header = {}
    /\ csv_rows = <<>>

\* One call of normalize_dosha, as df[col].apply makes per cell.
Normalize ==
    /\ nd_out = Unset
    /\ nd_out' = normalize_dosha(nd_in)
    /\ UNCHANGED <<nd_in, nd_prev>>
    /\ UNCHANGED mainvars

\* load_data's second branch: a value normalize_dosha produced is stored
\* in Dosha_Clean and is the input of the next load.
Renormalize ==
    /\ nd_out # Unset
    /\ nd_prev = Unset
    /\ nd_in' = nd_out
    /\ nd_prev' = nd_out
    /\ nd_out' = Unset
    /\ UNCHANGED mainvars

NextNorm == Normalize \/ Renormalize

SpecNorm == InitNorm /\ [][NextNorm]_vars

\* ------------------------------------------------- claims C1 to C3

\* "tri", then whitespace only, then "dosha", with no word character
\* right before or right after.
WholeWordTriDosha(s) ==
    \E i \in 1..Len(s) : \E j \in (i + 3)..Len(s) :
        /\ j + 4 <= Len(s)
        /\ SubSeq(s, i, i + 2) = tri
        /\ SubSeq(s, j, j + 4) = dosha
        /\ \A k \in (i + 3)..(j - 1) : s[k] \in Whitespace
        /\ (i = 1 \/ s[i - 1] \notin WordChars)
        /\ (j + 4 = Len(s) \/ s[j + 5] \notin WordChars)

NamesTridosha(s) ==
    contains(s, tridosha) \/ contains(s, trisosha) \/ WholeWordTriDosha(s)

\* C1: a label whose lower-cased, trimmed text contains "tridosha",
\* contains "trisosha", or contains "tri", optional whitespace and "dosha"
\* as a whole word is normalised to "tridosha", whatever else it holds.
C1_TridoshaDominates ==
    (nd_out # Unset /\ ~isna(nd_in) /\ NamesTridosha(lower(strip(nd_in))))
        => nd_out = tridosha

\* A label that names tridosha only through the whole-word pattern and
\* also holds a base token, which the token parse alone would return.
C1_Witness ==
    /\ nd_out = tridosha
    /\ ~isna(nd_in)
    /\ ~contains(lower(nd_in), tridosha)
    /\ ~contains(lower(nd_in), trisosha)
    /\ WholeWordTriDosha(lower(strip(nd_in)))
    /\ contains(lower(nd_in), vata)

\* s is made only of separators, spaces and base tokens; with `strict`,
\* a token that follows a token has a separator character in between.
RECURSIVE TokenList(_, _, _)
TokenList(s, strict, after_token) ==
    IF s = <<>> THEN TRUE
    ELSE IF Head(s) \in Separators THEN TokenList(Tail(s), strict, FALSE)
    ELSE IF Head(s) = " " THEN TokenList(Tail(s), strict, after_token)
    ELSE \E d \in ORDER_SET :
            /\ startswith(s, d)
            /\ ~(strict /\ after_token)
            /\ TokenList(SubSeq(s, Len(d) + 1, Len(s)), strict, TRUE)

\* The distinct tokens of a token list in the order vata, pitta, kapha,
\* joined by "|"; "tridosha" for all three; absent for none.
CanonicalLabel(s) ==
    LET here == SelectSeq(ORDER, LAMBDA d : contains(s, d))
    IN IF here = <<>> THEN NA
       ELSE IF Len(here) = 3 THEN tridosha
       ELSE IF Len(here) = 1 THEN here[1]
       ELSE here[1] \o <<"|">> \o here[2]

\* C2 as stated: every label made only of separators, spaces and base
\* tokens is normalised to its canonical label.
C2_AsStated ==
    (nd_out # Unset /\ ~isna(nd_in) /\ TokenList(lower(nd_in), FALSE, FALSE))
        => nd_out = CanonicalLabel(lower(nd_in))

\* C2, amended: every label made only of separators, spaces and base
\* tokens in which any two consecutive tokens have at least one separator
\* character between them is normalised to its canonical label.
C2_SeparatedTokens ==
    (nd_out # Unset /\ ~isna(nd_in) /\ TokenList(lower(nd_in), TRUE, FALSE))
        => nd_out = CanonicalLabel(lower(nd_in))

\* The specification's example: "Pitta, Vata" gives "vata|pitta".
C2_Witness ==
    /\ nd_in = PittaCommaVata
    /\ nd_prev = Unset
    /\ nd_out = vata \o <<"|">> \o pitta

\* C3: normalising a value normalize_dosha returned returns that value.
C3_Idempotent ==
    (nd_prev # Unset /\ nd_out # Unset) => nd_out = nd_prev

\* A two-token label, which holds a bar, normalised a second time.
C3_Witness ==
    /\ nd_prev = vata \o <<"|">> \o kapha
    /\ nd_out = nd_prev

\* ------------------------------------------------ claims C4 to C10

NoRepeat(q) == \A i, j \in 1..Len(q) : i # j => q[i] # q[j]

\* C4 as stated: for every query and every integer limit, get_suggestions
\* returns a sequence of at most `limit` elements without repetition.
C4_AsStated ==
    raised # Unset =>
        /\ raised = NothingRaised
        /\ Len(suggestions) <= limit
        /\ NoRepeat(suggestions)

\* C4, amended: for every query and every limit of at least 1,
\* get_suggestions returns a sequence of at most `limit` elements without
\* repetition.
C4_PositiveLimit ==
    (raised # Unset /\ limit >= 1) =>
        /\ raised = NothingRaised
        /\ Len(suggestions) <= limit
        /\ NoRepeat(suggestions)

\* A call whose limit cut the result: a symptom that holds the query was
\* left out.
C4_Witness ==
    /\ raised = NothingRaised
    /\ limit = 1
    /\ Len(suggestions) = 1
    /\ \E i \in 1..Len(df) :
          /\ df[i].symptom \notin Range(suggestions)
          /\ contains(lower(df[i].symptom), lower(strip(query)))

\* In `out`, no symptom that only holds q after its start stands before a
\* symptom that starts with q, and the symptoms that start with q, and
\* those that only hold it, each stand in code point order.
RankedByTier(out, q) ==
    \A i, j \in 1..Len(out) :
        i < j =>
            LET a == lower(out[i])
                b == lower(out[j])
                a_prefix == startswith(a, q)
                b_prefix == startswith(b, q)
                a_inside == contains(a, q) /\ ~a_prefix
                b_inside == contains(b, q) /\ ~b_prefix
            IN /\ ~(a_inside /\ b_prefix)
               /\ (a_prefix /\ b_prefix) => str_less(out[i], out[j])
               /\ (a_inside /\ b_inside) => str_less(out[i], out[j])

\* C5 as stated: the tiers are those of the lower-cased query.
C5_AsStated ==
    (raised = NothingRaised /\ query # None /\ query # <<>>)
        => RankedByTier(suggestions, lower(query))

\* C5, amended: the tiers are those of the lower-cased, trimmed query.
C5_TrimmedQuery ==
    (raised = NothingRaised /\ query # None /\ strip(query) # <<>>)
        => RankedByTier(suggestions, lower(strip(query)))

\* A symptom that starts with the query is ranked before one that sorts
\* before it and only holds the query after its start.
C5_Witness ==
    /\ raised = NothingRaised
    /\ query # None
    /\ \E i, j \in 1..Len(suggestions) :
          /\ i < j
          /\ startswith(lower(suggestions[i]), lower(strip(query)))
          /\ ~startswith(lower(suggestions[j]), lower(strip(query)))
          /\ contains(lower(suggestions[j]), lower(strip(query)))
          /\ str_less(suggestions[j], suggestions[i])

\* The key a text is looked up under.
KeyOf(text) == lower(strip(IF text = None THEN <<>> ELSE text))

\* C6: a text whose key the lookup map does not hold gets the not-found
\* result, which has the message and nothing else; every other text gets
\* a found result with a score and a tier.
C6_NotFoundOnly ==
    res # NoResult =>
        IF KeyOf(risk_text) \notin DOMAIN SYMPTOM_LOOKUP
        THEN res = [found |-> FALSE, message |-> NotFoundMessage]
        ELSE /\ res.found
             /\ {"risk_score_0_10", "risk_level"} \subseteq DOMAIN res
             /\ res.risk_score_0_10 \in 0..1000
             /\ res.risk_level \in {"Low", "Medium", "High"}

\* "Fever" asked of a table that holds other symptoms.
C6_Witness ==
    /\ res # NoResult
    /\ risk_text = T_Fever
    /\ Len(df) > 0
    /\ ~res.found
    /\ DOMAIN res = {"found", "message"}

\* The symptoms of the table with key k, and the row of the last of them.
SymptomsWithKey(k) ==
    {df[i].symptom : i \in {j \in 1..Len(df) : KeyOf(df[j].symptom) = k}}

LastRowWithKey(k) ==
    CHOOSE i \in 1..Len(df) :
        /\ KeyOf(df[i].symptom) = k
        /\ \A j \in (i + 1)..Len(df) : KeyOf(df[j].symptom) # k

\* C9 as stated: a key several symptoms share maps to the symptom of the
\* later row.
C9_AsStated ==
    phase = "loaded" =>
        \A k \in DOMAIN SYMPTOM_LOOKUP :
            SYMPTOM_LOOKUP[k] = df[LastRowWithKey(k)].symptom

\* C9, amended: a key several symptoms share maps to the one of them that
\* is last in code point order, wherever its row is.
C9_LastInSortedOrder ==
    phase = "loaded" =>
        \A k \in DOMAIN SYMPTOM_LOOKUP :
            /\ SYMPTOM_LOOKUP[k] \in SymptomsWithKey(k)
            /\ \A s \in SymptomsWithKey(k) \ {SYMPTOM_LOOKUP[k]} :
                  str_less(s, SYMPTOM_LOOKUP[k])

\* Two rows share a key and the map holds the symptom of the earlier row.
C9_Witness ==
    /\ phase = "loaded"
    /\ \E k \in DOMAIN SYMPTOM_LOOKUP :
          /\ Cardinality(SymptomsWithKey(k)) >= 2
          /\ SYMPTOM_LOOKUP[k] # df[LastRowWithKey(k)].symptom

\* C10: every suggestion is a symptom of the table, and compute_risk on a
\* suggestion passed unchanged returns a found result.
C10_SuggestionsAreFound ==
    /\ suggestions # Unset =>
          \A s \in Range(suggestions) :
              \E i \in 1..Len(df) : df[i].symptom = s
    /\ (res # NoResult /\ suggestions # Unset
            /\ risk_text \in Range(suggestions)) => res.found

\* A picked suggestion that resolves to another symptom of the same key
\* and is found all the same.
C10_Witness ==
    /\ res # NoResult
    /\ suggestions # Unset
    /\ picked \in Range(suggestions)
    /\ risk_text = picked
    /\ res.found
    /\ res.symptom # picked

\* The tier of a score in hundredths.
TierOf(score) ==
    IF score < 400 THEN "Low"
    ELSE IF score >= 400 /\ score < 700 THEN "Medium"
    ELSE "High"

\* C7: the tier of a found record is Low exactly when its score,
\* round(0.6 * group weight + 0.4 * dosha weight, 2), is below 4, Medium
\* exactly when it is at least 4 and below 7, High exactly when it is at
\* least 7; 4.0 is Medium and 7.0 is High.
C7_Tiers ==
    /\ (res # NoResult /\ res.found) =>
          /\ res.risk_score_0_10 = 6 * res.group_weight + 4 * res.dosha_weight
          /\ res.risk_level = TierOf(res.risk_score_0_10)
    /\ probe # Unset => probe[2] = TierOf(probe[1])

\* Table weights that give exactly 7.0, and the score 4.0 handed to
\* risk_level_from_score.
C7_Witness ==
    /\ res # NoResult
    /\ res.found
    /\ res.risk_score_0_10 = 700
    /\ res.risk_level = "High"
    /\ probe = <<400, "Medium">>

\* The header names of the file after trimming.
Trimmed == {strip(h) : h \in csv_header}

MissingColumn ==
    \/ H_Symptom \notin Trimmed /\ H_Symptoms \notin Trimmed
    \/ H_CommonGroup \notin Trimmed
    \/ H_DiseaseGroup \notin Trimmed
    \/ /\ H_DoshaClean \notin Trimmed
       /\ H_DoshaTypes \notin Trimmed
       /\ H_DoshaTypesLower \notin Trimmed

====
